---------------------------- MODULE Spec2Model ----------------------------
(***************************************************************************)
(* The tool-calling orchestration loop of the Vantage Telegram gateway     *)
(* (src/gateway.py, src/tools.py).                                         *)
(*                                                                         *)
(* Texts are sequences of tokens.  A token is a one-character string, or   *)
(* an opaque word: a string that holds no "<" and no ">" and neither       *)
(* starts nor ends with whitespace.  The regular expressions of            *)
(* strip_think_tags only ever match "<", "/", "t", "h", "i", "n", "k", ">" *)
(* one character at a time, so an opaque word is never part of a match.    *)
(***************************************************************************)
EXTENDS Integers, Sequences, FiniteSets, TLC

(***************************************************************************)
(* Python values.                                                          *)
(***************************************************************************)
\* Python's None where a text is expected; no text holds this token.
NoneVal == << "\\None" >>

EmptyText == << >>

Whitespace == {" ", "\n"}

OpenTag == << "<", "t", "h", "i", "n", "k", ">" >>

CloseTag == << "<", "/", "t", "h", "i", "n", "k", ">" >>

\* text[i:].startswith(pat), i counted from 1
StartsWith(text, i, pat) ==
    /\ i + Len(pat) - 1 <= Len(text)
    /\ \A k \in 1..Len(pat) : text[i + k - 1] = pat[k]

\* the least position >= i where pat starts in text, 0 when there is none
FindFrom(text, pat, i) ==
    LET hits == {p \in i..Len(text) : StartsWith(text, p, pat)}
    IN  IF hits = {} THEN 0 ELSE CHOOSE p \in hits : \A q \in hits : p <= q

\* re.sub(r'<think>.*?</think>', '', text, flags=re.DOTALL) scanning from i:
\* leftmost match first, the match ends at the first "</think>" after the
\* opening tag (non-greedy, "." matches a line break too), the scan goes on
\* after the match.
RECURSIVE ReSubThinkBlockFrom(_, _)
ReSubThinkBlockFrom(text, i) ==
    IF i > Len(text) THEN << >>
    ELSE LET close == IF StartsWith(text, i, OpenTag)
                      THEN FindFrom(text, CloseTag, i + Len(OpenTag))
                      ELSE 0
         IN  IF close # 0
             THEN ReSubThinkBlockFrom(text, close + Len(CloseTag))
             ELSE << text[i] >> \o ReSubThinkBlockFrom(text, i + 1)

ReSubThinkBlock(text) == ReSubThinkBlockFrom(text, 1)

\* re.sub(r'</?think>', '', text) scanning from i
RECURSIVE ReSubStrayTagsFrom(_, _)
ReSubStrayTagsFrom(text, i) ==
    IF i > Len(text) THEN << >>
    ELSE IF StartsWith(text, i, CloseTag)
         THEN ReSubStrayTagsFrom(text, i + Len(CloseTag))
    ELSE IF StartsWith(text, i, OpenTag)
         THEN ReSubStrayTagsFrom(text, i + Len(OpenTag))
    ELSE << text[i] >> \o ReSubStrayTagsFrom(text, i + 1)

ReSubStrayTags(text) == ReSubStrayTagsFrom(text, 1)

\* str.strip()
PyStrip(text) ==
    LET solid == {p \in 1..Len(text) : text[p] \notin Whitespace}
    IN  IF solid = {} THEN << >>
        ELSE LET lo == CHOOSE p \in solid : \A q \in solid : p <= q
                 hi == CHOOSE p \in solid : \A q \in solid : q <= p
             IN  SubSeq(text, lo, hi)

\* str.isspace(): at least one character, all of them whitespace
IsSpace(text) == Len(text) > 0 /\ \A p \in 1..Len(text) : text[p] \in Whitespace

\* Python truthiness of an optional text: None and "" are falsy
Falsy(text) == text = NoneVal \/ text = EmptyText

strip_think_tags(text) ==
    IF Falsy(text) THEN EmptyText
    ELSE PyStrip(ReSubStrayTags(ReSubThinkBlock(text)))

\* whether a text holds a "<think>" or a "</think>" marker
HasMarker(text) ==
    \E p \in 1..Len(text) : StartsWith(text, p, OpenTag) \/ StartsWith(text, p, CloseTag)


(***************************************************************************)
(* Constants of the program and bounds of the model.                       *)
(***************************************************************************)
max_iterations == 5

HistoryWindow == 10

HistoryLimit == 20

\* turns one session starts in a run of Spec
MaxTurns == 2

\* abnormal events one turn survives: a failed context fetch, a tool call
\* that ends without a payload
MaxFaults == 1

Sessions == {"s1", "s2"}

\* the sessions that receive messages in Spec
MainSessions == {"s1"}

UserTexts == { << "status of task 20" >> }

SYSTEM_PROMPT == << "SYSTEM_PROMPT" >>

CapFallback == << "I executed the tools but couldn't generate a response." >>

EmptyFallback == << "I processed your request but have no response to show." >>

Apology == << "Sorry, I encountered an error processing your request." >>

\* update.message.document is None
NoDoc == "\\NoDoc"

(***************************************************************************)
(* What the collaborators may answer.                                      *)
(***************************************************************************)
\* the context string of a 200 answer of the backend
ContextTexts == { << "3 open tasks" >> }

\* message["content"] of a response without tool calls
FinalContents ==
    { NoneVal,
      EmptyText,
      << " ", "\n" >>,
      << "Task 20 is open" >>,
      OpenTag \o << "plan" >> \o CloseTag,
      OpenTag \o << "plan" >> \o CloseTag \o << "\n", "Task 20 is open" >>,
      << "<", "t", "h", "i" >> \o OpenTag \o << "n", "k", ">" >> }

\* function.arguments strings the model may send, and what json.loads makes
\* of each: a dict (a function from its keys), or a JSONDecodeError
ArgsEmpty == "{}"

ArgsSlug == "{\"project_slug\": \"demo-project\"}"

ArgsTask == "{\"task_id\": 20}"

ArgsMalformed == "{\"task_id\": 20"

EmptyDict == [k \in {} |-> 0]

JsonLoads(str) ==
    CASE str = ArgsEmpty -> [ok |-> TRUE, value |-> EmptyDict]
      [] str = ArgsSlug  -> [ok |-> TRUE, value |-> [project_slug |-> "demo-project"]]
      [] str = ArgsTask  -> [ok |-> TRUE, value |-> [task_id |-> 20]]
      [] OTHER           -> [ok |-> FALSE, value |-> EmptyDict]

ToolCall(id, name, arguments) ==
    [id |-> id, function |-> [name |-> name, arguments |-> arguments]]

\* the tool_calls lists a response may carry; the ids are the endpoint's
NominalBatches ==
    { << ToolCall("call_1", "get_tasks", ArgsSlug),
         ToolCall("call_2", "complete_task", ArgsTask) >> }

FaultyBatches ==
    { << ToolCall("call_3", "complete_task", ArgsEmpty) >>,
      << ToolCall("call_4", "no_such_tool", ArgsEmpty) >>,
      << ToolCall("call_5", "get_projects", ArgsEmpty),
         ToolCall("call_6", "complete_task", ArgsMalformed) >> }

\* how subprocess.run may end
ProcOk == [timeout |-> FALSE, returncode |-> 0, stdout |-> "{\"ok\": true}", stderr |-> ""]

ProcBadOutput == [timeout |-> FALSE, returncode |-> 0, stdout |-> "Traceback", stderr |-> ""]

ProcFails == [timeout |-> FALSE, returncode |-> 1, stdout |-> "", stderr |-> "Task not found"]

ProcTimeout == [timeout |-> TRUE, returncode |-> 0, stdout |-> "", stderr |-> ""]

ProcFaults == {ProcBadOutput, ProcFails, ProcTimeout}

\* every stdout taken for a JSON document
StdoutAlwaysDecodes(stdout) == TRUE

\* json.loads of a script's stdout
StdoutDecodes(stdout) == stdout = "{\"ok\": true}"

\* how the GET of the backend may end: an exception of the client, or a
\* response with a status and a body that decodes to an object or does not
BackendAnswers(context) ==
    [raises |-> FALSE, status_code |-> 200, decodes |-> TRUE, context |-> context]

BackendRefuses ==
    [raises |-> FALSE, status_code |-> 503, decodes |-> TRUE, context |-> EmptyText]

BackendUnreachable ==
    [raises |-> TRUE, status_code |-> 0, decodes |-> FALSE, context |-> EmptyText]

BackendGarbled ==
    [raises |-> FALSE, status_code |-> 200, decodes |-> FALSE, context |-> EmptyText]

BackendFaults == {BackendRefuses, BackendUnreachable, BackendGarbled}

(***************************************************************************)
(* src/tools.py                                                            *)
(***************************************************************************)
TOOLS ==
    { "get_tasks", "get_task", "analyze_task_document", "complete_task",
      "create_task", "update_task", "delete_task", "process_rfp",
      "get_project_stats", "delete_project", "get_projects" }

\* the keys execute_tool reads with arguments[...] before it spawns the script
RequiredKeys(tool_name) ==
    CASE tool_name \in {"get_tasks", "get_project_stats", "delete_project"} -> {"project_slug"}
      [] tool_name \in {"get_task", "analyze_task_document", "complete_task",
                        "update_task", "delete_task"} -> {"task_id"}
      [] tool_name = "create_task" -> {"topic_id", "title"}
      [] OTHER -> {}

\* whether execute_tool reaches subprocess.run
Spawns(tool_name, arguments) ==
    tool_name \in TOOLS /\ RequiredKeys(tool_name) \subseteq DOMAIN arguments

\* a nonzero exit reported as a failure of the execution, its stderr dropped
execute_tool_dropping_stderr(tool_name, arguments, proc) ==
    IF tool_name \notin TOOLS
    THEN [error |-> << "Unknown tool: ", tool_name >>]
    ELSE IF ~ (RequiredKeys(tool_name) \subseteq DOMAIN arguments)
    THEN [error |-> << "Tool execution failed: ", "KeyError" >>]
    ELSE IF proc.timeout
    THEN [error |-> << "Tool ", tool_name, " timed out" >>]
    ELSE IF proc.returncode = 0 /\ StdoutDecodes(proc.stdout)
    THEN [payload |-> proc.stdout]
    ELSE [error |-> << "Tool execution failed: ", "JSONDecodeError" >>]

\* proc is the end of subprocess.run; it is read only when Spawns holds
execute_tool(tool_name, arguments, proc) ==
    IF tool_name \notin TOOLS
    THEN [error |-> << "Unknown tool: ", tool_name >>]
    ELSE IF ~ (RequiredKeys(tool_name) \subseteq DOMAIN arguments)
    THEN [error |-> << "Tool execution failed: ", "KeyError" >>]
    ELSE IF proc.timeout
    THEN [error |-> << "Tool ", tool_name, " timed out" >>]
    ELSE IF proc.returncode = 0
    THEN IF StdoutDecodes(proc.stdout)
         THEN [payload |-> proc.stdout]
         ELSE [error |-> << "Tool execution failed: ", "JSONDecodeError" >>]
    ELSE [error |-> << proc.stderr >>]

\* json.dumps of a tool result
JsonDumps(tool_result) ==
    IF "error" \in DOMAIN tool_result
    THEN << "{", "\"error\"", ":", " ", "\"" >> \o tool_result.error \o << "\"", "}" >>
    ELSE << tool_result.payload >>

(***************************************************************************)
(* src/gateway.py: the state.                                              *)
(***************************************************************************)
VARIABLES
    user_data,      \* context.user_data of each session: a dict, a function from its keys
    pc,             \* where each session's handle_message stands: "idle", or the call it awaits
    turns,          \* the turns each session has started
    user_message,   \* locals of handle_message
    messages,
    iteration,
    final_message,
    message,        \* the assistant message whose tool_calls are being run
    tool_idx,       \* the place in message["tool_calls"] of the next call to run
    sent,           \* the channel calls of the turn so far, each with whether it succeeded
    model_calls,    \* the call_vllm invocations of the turn so far
    failure,        \* what raised in the turn: "none", or the step that raised
    faults,         \* the abnormal events of the turn so far
    hist0,          \* the stored history when the turn started
    committed,      \* every entry ever appended to the session's stored history
    strip_pc,       \* the strip_think_tags harness: "in", "once", "twice"
    strip_in,
    strip_out,
    strip_twice,
    update,         \* the update the session's handler was last called with
    doc_sent,       \* the replies handle_document itself has sent for that update
    task_id         \* handle_document's task_id, None before line 231

vars ==
    << user_data, pc, turns, user_message, messages, iteration, final_message,
       message, tool_idx, sent, model_calls, failure, faults, hist0, committed,
       strip_pc, strip_in, strip_out, strip_twice, update, doc_sent, task_id >>

frame == << user_message, messages, iteration, final_message, message, tool_idx >>

strip_vars == << strip_pc, strip_in, strip_out, strip_twice >>

doc_vars == << update, doc_sent, task_id >>

\* one history for all the sessions: that of the first one
HistoryOfFirstSession(s) ==
    IF "conversation_history" \in DOMAIN user_data["s1"]
    THEN user_data["s1"].conversation_history
    ELSE << >>

\* context.user_data.get('conversation_history', [])
History(s) ==
    IF "conversation_history" \in DOMAIN user_data[s]
    THEN user_data[s].conversation_history
    ELSE << >>

\* d[key] = value on a dict
DictSet(d, key, value) ==
    [k \in DOMAIN d \cup {key} |-> IF k = key THEN value ELSE d[k]]

\* Python's seq[-n:] for n > 0
LastN(seq, n) ==
    IF Len(seq) <= n THEN seq ELSE SubSeq(seq, Len(seq) - n + 1, Len(seq))

NoMessage == [role |-> "none"]

Text(kind, text, ok) == [kind |-> kind, text |-> text, ok |-> ok]

Typing(ok) == Text("typing", EmptyText, ok)

\* an update whose message is a text: no document, no caption
TextUpdate(text) == [text |-> text, document |-> NoDoc, caption |-> NoneVal]

\* an update whose message carries a document, with or without a caption
DocumentUpdate(file_name, caption) ==
    [text |-> NoneVal, document |-> file_name, caption |-> caption]

(***************************************************************************)
(* src/gateway.py: the steps of handle_message between two awaits.         *)
(***************************************************************************)
\* the annotation for the message's own document only
AnnotateOwnDocument(ud, text, doc) ==
    IF doc # NoDoc
    THEN LET file_info == << "\n", "\n", "[User uploaded file:", " ", doc, "]" >>
         IN  IF Falsy(text) THEN file_info ELSE text \o file_info
    ELSE text

\* lines 91-99: the text with the annotation of an uploaded file
AnnotateUserMessage(ud, text, doc) ==
    IF doc # NoDoc
    THEN LET file_info == << "\n", "\n", "[User uploaded file:", " ", doc, "]" >>
         IN  IF Falsy(text) THEN file_info ELSE text \o file_info
    ELSE IF "last_upload" \in DOMAIN ud
    THEN text \o << "\n", "\n", "[Recently uploaded file:", " ", ud["last_upload"].filename, "]" >>
    ELSE text

\* the tools offered with the first request of a turn only
call_vllm_tools_once(msgs, tools) ==
    IF tools # {} /\ ~ \E j \in 1..Len(msgs) : msgs[j].role = "tool"
    THEN [model |-> "Qwen/Qwen3-8B", messages |-> msgs, tools |-> tools, tool_choice |-> "auto"]
    ELSE [model |-> "Qwen/Qwen3-8B", messages |-> msgs]

\* call_vllm, lines 40-51: the body of the POST to the model endpoint
call_vllm(msgs, tools) ==
    IF tools # {}
    THEN [model |-> "Qwen/Qwen3-8B", messages |-> msgs, tools |-> tools, tool_choice |-> "auto"]
    ELSE [model |-> "Qwen/Qwen3-8B", messages |-> msgs]

\* lines 25-37: the context string made of the end of the GET
get_enriched_context(response) ==
    IF response.raises THEN EmptyText
    ELSE IF response.status_code = 200
    THEN IF response.decodes THEN response.context ELSE EmptyText
    ELSE EmptyText

\* the oldest entries of the history replayed: [:10] for [-10:]
BuildMessagesOldest(history, enriched_context, text) ==
    << [role |-> "system", content |-> SYSTEM_PROMPT],
       [role |-> "system", content |-> << "PROJECT CONTEXT:", "\n" >> \o enriched_context] >>
    \o (IF Len(history) <= HistoryWindow THEN history ELSE SubSeq(history, 1, HistoryWindow))
    \o << [role |-> "user", content |-> text] >>

\* lines 115-124
BuildMessages(history, enriched_context, text) ==
    << [role |-> "system", content |-> SYSTEM_PROMPT],
       [role |-> "system", content |-> << "PROJECT CONTEXT:", "\n" >> \o enriched_context] >>
    \o LastN(history, HistoryWindow)
    \o << [role |-> "user", content |-> text] >>

\* the loop test off by one: "<=" for "<"
LoopContinuesInclusive(iter) == iter <= max_iterations

\* line 131: the test of the while loop
LoopContinues(iter) == iter < max_iterations

\* line 161 left out: the counter never moves
NextIterationStuck(iter) == iter

\* line 161
NextIteration(iter) == iter + 1

\* line 139 left out: the assistant message is not kept
AppendAssistantDropped(msgs, m) == msgs

\* line 139
AppendAssistant(msgs, m) == Append(msgs, m)

\* lines 174-175 left out: what the stripping leaves is the reply
FinalTextUnchecked(final) ==
    strip_think_tags(IF Falsy(final) THEN CapFallback ELSE final)

\* lines 167-176: the reply text made of the loop's final_message
FinalText(final) ==
    LET chosen   == IF Falsy(final) THEN CapFallback ELSE final
        stripped == strip_think_tags(chosen)
    IN  IF Falsy(stripped) \/ IsSpace(stripped) THEN EmptyFallback ELSE stripped

\* the oldest entries kept: [:20] for [-20:]
TruncateHistoryOldest(history) ==
    IF Len(history) > HistoryLimit THEN SubSeq(history, 1, HistoryLimit) ELSE history

\* lines 187-188
TruncateHistory(history) ==
    IF Len(history) > HistoryLimit THEN LastN(history, HistoryLimit) ELSE history

\* line 183 left out: the user's message is not kept
TurnEntriesAssistantOnly(text, final) ==
    << [role |-> "assistant", content |-> final] >>

\* lines 183-184: the two entries a turn appends
TurnEntries(text, final) ==
    << [role |-> "user", content |-> text], [role |-> "assistant", content |-> final] >>

\* one entry too many cut off: [-19:] for [-20:]
CommitHistoryOddCut(history, text, final) ==
    LET all == history \o TurnEntries(text, final)
    IN  IF Len(all) > HistoryLimit THEN LastN(all, HistoryLimit - 1) ELSE all

\* lines 183-188
CommitHistory(history, text, final) ==
    TruncateHistory(history \o TurnEntries(text, final))

\* the tool's name where the call's id belongs
ToolMessageNameAsId(tool_call, tool_result) ==
    [role |-> "tool",
     tool_call_id |-> tool_call.function.name,
     name |-> tool_call.function.name,
     content |-> JsonDumps(tool_result)]

\* lines 152-157
ToolMessage(tool_call, tool_result) ==
    [role |-> "tool",
     tool_call_id |-> tool_call.id,
     name |-> tool_call.function.name,
     content |-> JsonDumps(tool_result)]

\* line 132: the request a session awaits the answer of while it stands at
\* "model"
Request(s) == call_vllm(messages[s], TOOLS)

\* handle_message returns or raises, and the session goes on at 'to': its
\* locals are gone
LeaveTurn(s, to) ==
    /\ pc' = [pc EXCEPT ![s] = to]
    /\ user_message' = [user_message EXCEPT ![s] = EmptyText]
    /\ messages' = [messages EXCEPT ![s] = << >>]
    /\ iteration' = [iteration EXCEPT ![s] = 0]
    /\ final_message' = [final_message EXCEPT ![s] = NoneVal]
    /\ message' = [message EXCEPT ![s] = NoMessage]
    /\ tool_idx' = [tool_idx EXCEPT ![s] = 0]

\* handle_message called by the application returns or raises
EndTurn(s) == LeaveTurn(s, "idle")

\* the exception swallowed: the turn goes on to its reply
RaiseThenReply(s, step) ==
    /\ pc' = [pc EXCEPT ![s] = "reply"]
    /\ failure' = [failure EXCEPT ![s] = step]

\* the except clause, lines 190-193: the apology is sent
Raise(s, step) ==
    /\ pc' = [pc EXCEPT ![s] = "apology"]
    /\ failure' = [failure EXCEPT ![s] = step]

\* past the cap the turn is taken for a failed one
LoopHeadCapIsError(s, iter) ==
    IF LoopContinues(iter)
    THEN /\ pc' = [pc EXCEPT ![s] = "model"]
         /\ model_calls' = [model_calls EXCEPT ![s] = @ + 1]
         /\ final_message' = final_message
    ELSE /\ pc' = [pc EXCEPT ![s] = "apology"]
         /\ model_calls' = model_calls
         /\ final_message' = final_message

\* line 131 onwards with the counter at iter: the next model call, or, past
\* the cap, lines 167-179
LoopHead(s, iter) ==
    IF LoopContinues(iter)
    THEN /\ pc' = [pc EXCEPT ![s] = "model"]
         /\ model_calls' = [model_calls EXCEPT ![s] = @ + 1]
         /\ final_message' = final_message
    ELSE /\ pc' = [pc EXCEPT ![s] = "reply"]
         /\ model_calls' = model_calls
         /\ final_message' = [final_message EXCEPT ![s] = FinalText(NoneVal)]

Init ==
    /\ user_data = [s \in Sessions |-> EmptyDict]
    /\ pc = [s \in Sessions |-> "idle"]
    /\ turns = [s \in Sessions |-> 0]
    /\ user_message = [s \in Sessions |-> EmptyText]
    /\ messages = [s \in Sessions |-> << >>]
    /\ iteration = [s \in Sessions |-> 0]
    /\ final_message = [s \in Sessions |-> NoneVal]
    /\ message = [s \in Sessions |-> NoMessage]
    /\ tool_idx = [s \in Sessions |-> 0]
    /\ sent = [s \in Sessions |-> << >>]
    /\ model_calls = [s \in Sessions |-> 0]
    /\ failure = [s \in Sessions |-> "none"]
    /\ faults = [s \in Sessions |-> 0]
    /\ hist0 = [s \in Sessions |-> << >>]
    /\ committed = [s \in Sessions |-> << >>]
    /\ strip_pc = "in"
    /\ strip_in = EmptyText
    /\ strip_out = EmptyText
    /\ strip_twice = EmptyText
    /\ update = [s \in Sessions |-> TextUpdate(NoneVal)]
    /\ doc_sent = [s \in Sessions |-> << >>]
    /\ task_id = [s \in Sessions |-> NoneVal]

\* lines 81-102 of a call of handle_message, by the application or by
\* handle_document: the text is annotated and the typing indicator sent
EnterHandleMessage(s, text, doc) ==
    /\ pc' = [pc EXCEPT ![s] = "typing0"]
    /\ user_message' = [user_message EXCEPT ![s] = AnnotateUserMessage(user_data[s], text, doc)]
    /\ sent' = [sent EXCEPT ![s] = << >>]
    /\ model_calls' = [model_calls EXCEPT ![s] = 0]
    /\ failure' = [failure EXCEPT ![s] = "none"]
    /\ faults' = [faults EXCEPT ![s] = 0]
    /\ hist0' = [hist0 EXCEPT ![s] = History(s)]
    /\ UNCHANGED << user_data, messages, iteration, final_message, message, tool_idx,
                    committed, strip_vars >>

\* lines 78-102: a text message arrives; the typing indicator is sent
HandleMessage(s, text, doc, max_turns) ==
    /\ pc[s] = "idle"
    /\ turns[s] < max_turns
    /\ turns' = [turns EXCEPT ![s] = @ + 1]
    /\ update' = [update EXCEPT ![s] = [TextUpdate(text) EXCEPT !.document = doc]]
    /\ doc_sent' = [doc_sent EXCEPT ![s] = << >>]
    /\ task_id' = [task_id EXCEPT ![s] = NoneVal]
    /\ EnterHandleMessage(s, text, doc)

\* line 102 returns; line 106 asks the backend for the context
TypingSent(s) ==
    /\ pc[s] = "typing0"
    /\ pc' = [pc EXCEPT ![s] = "context"]
    /\ sent' = [sent EXCEPT ![s] = Append(@, Typing(TRUE))]
    /\ UNCHANGED << user_data, turns, frame, model_calls, failure, faults, hist0,
                    committed, strip_vars, doc_vars >>

\* line 102 raises, outside the try: handle_message raises, into the except
\* clause of handle_document (line 257) when that is its caller
TypingRaises(s) ==
    /\ pc[s] = "typing0"
    /\ sent' = [sent EXCEPT ![s] = Append(@, Typing(FALSE))]
    /\ failure' = [failure EXCEPT ![s] = "typing0"]
    /\ IF task_id[s] = NoneVal THEN EndTurn(s) ELSE LeaveTurn(s, "doc_apology")
    /\ UNCHANGED << user_data, turns, model_calls, faults, hist0, committed, strip_vars, doc_vars >>

\* lines 106-132 with the context the backend gave ("" when the fetch failed):
\* the history is initialised, the exchange built, the first model call made
ContextFetched(s, enriched_context) ==
    /\ pc[s] = "context"
    /\ user_data' = [user_data EXCEPT ![s] =
                        IF "conversation_history" \in DOMAIN @ THEN @
                        ELSE DictSet(@, "conversation_history", << >>)]
    /\ messages' = [messages EXCEPT ![s] = BuildMessages(History(s), enriched_context, user_message[s])]
    /\ iteration' = [iteration EXCEPT ![s] = 0]
    /\ LoopHead(s, 0)
    /\ UNCHANGED << turns, user_message, message, tool_idx, sent, failure, hist0,
                    committed, strip_vars, doc_vars >>

\* get_enriched_context, lines 25-37: a 200 answer with a context
ContextOk(s) ==
    /\ \E c \in ContextTexts : ContextFetched(s, get_enriched_context(BackendAnswers(c)))
    /\ UNCHANGED faults

\* the failure of the fetch let through to handle_message's except clause
ContextFailsAborts(s) ==
    /\ pc[s] = "context"
    /\ faults[s] < MaxFaults
    /\ faults' = [faults EXCEPT ![s] = @ + 1]
    /\ Raise(s, "context")
    /\ UNCHANGED << user_data, turns, frame, sent, model_calls, hist0, committed,
                    strip_vars, doc_vars >>

\* get_enriched_context, lines 25-37: another status, a network failure, a
\* body that does not decode
ContextFails(s) ==
    /\ faults[s] < MaxFaults
    /\ faults' = [faults EXCEPT ![s] = @ + 1]
    /\ \E response \in BackendFaults : ContextFetched(s, get_enriched_context(response))

\* lines 132-134 raise: call_vllm raised, or the answer has no choices[0].message
ModelRaises(s) ==
    /\ pc[s] = "model"
    /\ \E step \in {"model", "shape"} : Raise(s, step)
    /\ UNCHANGED << user_data, turns, frame, sent, model_calls, faults, hist0,
                    committed, strip_vars, doc_vars >>

\* an empty list of tool calls taken for a batch
RequestsToolsIfPresent(m) == "tool_calls" \in DOMAIN m

\* line 136: message.get("tool_calls") is there and not empty
RequestsTools(m) == "tool_calls" \in DOMAIN m /\ m.tool_calls # << >>

\* lines 132-139 and 162-179 with the message m of the response: the batch
\* is taken up, or the content becomes the reply
ModelResponds(s, m) ==
    /\ pc[s] = "model"
    /\ message' = [message EXCEPT ![s] = m]
    /\ IF RequestsTools(m)
       THEN /\ messages' = [messages EXCEPT ![s] = AppendAssistant(@, m)]
            /\ tool_idx' = [tool_idx EXCEPT ![s] = 1]
            /\ pc' = [pc EXCEPT ![s] = "tools"]
            /\ final_message' = final_message
       ELSE /\ final_message' = [final_message EXCEPT ![s] = FinalText(m.content)]
            /\ pc' = [pc EXCEPT ![s] = "reply"]
            /\ UNCHANGED << messages, tool_idx >>
    /\ UNCHANGED << user_data, turns, user_message, iteration, sent, model_calls,
                    failure, hist0, committed, strip_vars, doc_vars >>

\* the messages of a response without tool calls: no tool_calls key, or an
\* empty list
AnswerMessages(content) ==
    { [role |-> "assistant", content |-> content],
      [role |-> "assistant", content |-> content, tool_calls |-> << >>] }

\* lines 132-136, 162-179: a response without tool_calls (absent, or an empty
\* list); its content becomes the reply
ModelAnswers(s, contents) ==
    /\ \E content \in contents : \E m \in AnswerMessages(content) : ModelResponds(s, m)
    /\ UNCHANGED faults

\* lines 132-139: a response with tool_calls; the assistant message is appended
ModelRequestsTools(s) ==
    \E batch \in NominalBatches \cup {b \in FaultyBatches : faults[s] < MaxFaults} :
        /\ ModelResponds(s, [role |-> "assistant", content |-> NoneVal, tool_calls |-> batch])
        /\ faults' = [faults EXCEPT ![s] = IF batch \in FaultyBatches THEN @ + 1 ELSE @]

\* the for loop left after its first call
BatchDoneAtFirst(idx, tool_calls) == TRUE

\* line 141: the for loop is over with the call at place idx
BatchDone(idx, tool_calls) == idx = Len(tool_calls)

\* line 143 raises: the arguments of the call are no JSON
ToolArgumentsRaise(s) ==
    /\ pc[s] = "tools"
    /\ ~ JsonLoads(message[s].tool_calls[tool_idx[s]].function.arguments).ok
    /\ Raise(s, "arguments")
    /\ UNCHANGED << user_data, turns, frame, sent, model_calls, faults, hist0,
                    committed, strip_vars, doc_vars >>

\* lines 141-157 for one call, and line 160 after the last one
ToolRuns(s, proc) ==
    LET tool_call == message[s].tool_calls[tool_idx[s]]
        tool_name == tool_call.function.name
        decoded   == JsonLoads(tool_call.function.arguments)
        result    == execute_tool(tool_name, decoded.value, proc)
    IN  /\ pc[s] = "tools"
        /\ decoded.ok
        /\ messages' = [messages EXCEPT ![s] = Append(@, ToolMessage(tool_call, result))]
        /\ tool_idx' = [tool_idx EXCEPT ![s] = @ + 1]
        /\ pc' = [pc EXCEPT ![s] =
                    IF BatchDone(tool_idx[s], message[s].tool_calls) THEN "typing" ELSE "tools"]
        /\ UNCHANGED << user_data, turns, user_message, iteration, final_message,
                        message, sent, model_calls, failure, hist0, committed, strip_vars, doc_vars >>

\* the script is spawned and ends with a JSON document, or no script is spawned
ToolReturns(s) ==
    /\ ToolRuns(s, ProcOk)
    /\ UNCHANGED faults

\* the script is spawned and times out, exits nonzero, or prints no JSON
ToolFails(s) ==
    /\ pc[s] = "tools"
    /\ faults[s] < MaxFaults
    /\ LET tool_call == message[s].tool_calls[tool_idx[s]]
           decoded   == JsonLoads(tool_call.function.arguments)
       IN  decoded.ok /\ Spawns(tool_call.function.name, decoded.value)
    /\ faults' = [faults EXCEPT ![s] = @ + 1]
    /\ \E proc \in ProcFaults : ToolRuns(s, proc)

\* line 160 returns; line 161, then the loop test of line 131
ProgressSent(s) ==
    /\ pc[s] = "typing"
    /\ sent' = [sent EXCEPT ![s] = Append(@, Typing(TRUE))]
    /\ iteration' = [iteration EXCEPT ![s] = NextIteration(@)]
    /\ LoopHead(s, NextIteration(iteration[s]))
    /\ UNCHANGED << user_data, turns, user_message, messages, message, tool_idx,
                    failure, faults, hist0, committed, strip_vars, doc_vars >>

\* line 160 raises
ProgressRaises(s) ==
    /\ pc[s] = "typing"
    /\ sent' = [sent EXCEPT ![s] = Append(@, Typing(FALSE))]
    /\ Raise(s, "typing")
    /\ UNCHANGED << user_data, turns, frame, model_calls, faults, hist0, committed,
                    strip_vars, doc_vars >>

\* the turn committed whether the reply got through or not
ReplySentOrNot(s) ==
    /\ pc[s] = "reply"
    /\ \E ok \in BOOLEAN :
          sent' = [sent EXCEPT ![s] = Append(@, Text("text", final_message[s], ok))]
    /\ user_data' = [user_data EXCEPT ![s] =
                        DictSet(@, "conversation_history",
                                CommitHistory(History(s), user_message[s], final_message[s]))]
    /\ committed' = [committed EXCEPT ![s] = @ \o TurnEntries(user_message[s], final_message[s])]
    /\ EndTurn(s)
    /\ UNCHANGED << turns, model_calls, failure, faults, hist0, strip_vars, doc_vars >>

\* line 179 returns; lines 183-188 commit the turn
ReplySent(s) ==
    /\ pc[s] = "reply"
    /\ sent' = [sent EXCEPT ![s] = Append(@, Text("text", final_message[s], TRUE))]
    /\ user_data' = [user_data EXCEPT ![s] =
                        DictSet(@, "conversation_history",
                                CommitHistory(History(s), user_message[s], final_message[s]))]
    /\ committed' = [committed EXCEPT ![s] = @ \o TurnEntries(user_message[s], final_message[s])]
    /\ EndTurn(s)
    /\ UNCHANGED << turns, model_calls, failure, faults, hist0, strip_vars, doc_vars >>

\* the turn committed before the reply is sent, and the send raises
ReplyRaisesCommitted(s) ==
    /\ pc[s] = "reply"
    /\ sent' = [sent EXCEPT ![s] = Append(@, Text("text", final_message[s], FALSE))]
    /\ user_data' = [user_data EXCEPT ![s] =
                        DictSet(@, "conversation_history",
                                CommitHistory(History(s), user_message[s], final_message[s]))]
    /\ committed' = [committed EXCEPT ![s] = @ \o TurnEntries(user_message[s], final_message[s])]
    /\ Raise(s, "reply")
    /\ UNCHANGED << turns, frame, model_calls, faults, hist0, strip_vars, doc_vars >>

\* line 179 raises
ReplyRaises(s) ==
    /\ pc[s] = "reply"
    /\ sent' = [sent EXCEPT ![s] = Append(@, Text("text", final_message[s], FALSE))]
    /\ Raise(s, "reply")
    /\ UNCHANGED << user_data, turns, frame, model_calls, faults, hist0, committed,
                    strip_vars, doc_vars >>

\* the except clause without line 193: the failed turn ends in silence
ApologyLeftOut(s) ==
    /\ pc[s] = "apology"
    /\ sent' = sent
    /\ EndTurn(s)
    /\ UNCHANGED << user_data, turns, model_calls, failure, faults, hist0, committed,
                    strip_vars, doc_vars >>

\* line 193 returns, or raises: handle_message is over; what it raises goes
\* to the except clause of handle_document (line 257) when that is its caller
ApologySent(s) ==
    /\ pc[s] = "apology"
    /\ \E ok \in BOOLEAN :
          /\ sent' = [sent EXCEPT ![s] = Append(@, Text("text", Apology, ok))]
          /\ IF ~ ok /\ task_id[s] # NoneVal
             THEN LeaveTurn(s, "doc_apology")
             ELSE EndTurn(s)
    /\ UNCHANGED << user_data, turns, model_calls, failure, faults, hist0, committed,
                    strip_vars, doc_vars >>

\* the steps of a turn under way
TurnStep(s) ==
    \/ TypingSent(s)
    \/ TypingRaises(s)
    \/ ContextOk(s)
    \/ ContextFails(s)
    \/ ModelRaises(s)
    \/ ModelAnswers(s, FinalContents)
    \/ ModelRequestsTools(s)
    \/ ToolArgumentsRaise(s)
    \/ ToolReturns(s)
    \/ ToolFails(s)
    \/ ProgressSent(s)
    \/ ProgressRaises(s)
    \/ ReplySent(s)
    \/ ReplyRaises(s)
    \/ ApologySent(s)

Next ==
    \E s \in MainSessions :
        \/ \E text \in UserTexts : HandleMessage(s, text, NoDoc, MaxTurns)
        \/ TurnStep(s)

Spec == Init /\ [][Next]_vars

(***************************************************************************)
(* One turn at a time with every call it awaits returning: the runs in     *)
(* which the loop's termination is checked.                                *)
(***************************************************************************)
MaxLiveTurns == 1

NextLive ==
    \E s \in MainSessions :
        \/ \E text \in UserTexts : HandleMessage(s, text, NoDoc, MaxLiveTurns)
        \/ TurnStep(s)

LiveSpec == Init /\ [][NextLive]_vars /\ \A s \in MainSessions : WF_vars(TurnStep(s))

(***************************************************************************)
(* Long runs of one session, in which the stored history fills up and is   *)
(* truncated: the model answers every call in text or fails, the channel   *)
(* and the backend work.                                                   *)
(***************************************************************************)
MaxHistTurns == 12

HistUserTexts == { << "status of task 20" >>, << "thanks" >> }

HistContents == { << "Task 20 is open" >> }

NextHist ==
    \E s \in MainSessions :
        \/ \E text \in HistUserTexts : HandleMessage(s, text, NoDoc, MaxHistTurns)
        \/ TypingSent(s)
        \/ ContextOk(s)
        \/ ModelRaises(s)
        \/ ModelAnswers(s, HistContents)
        \/ ReplySent(s)
        \/ ApologySent(s)

SpecHist == Init /\ [][NextHist]_vars

(***************************************************************************)
(* Two sessions at once, their handlers' steps in every order: whether a   *)
(* handler runs while another is suspended at an await is up to the        *)
(* application object of line 272. Built as it is, without                 *)
(* concurrent_updates, it hands over one update at a time, and the turns   *)
(* follow one another: those runs are among the orders taken here. Each    *)
(* session sends its own text; the model answers in text or fails, the     *)
(* channel and the backend work.                                           *)
(***************************************************************************)
MaxConcTurns == 2

SessionText ==
    [s \in Sessions |->
        IF s = "s1" THEN << "status of task 20" >> ELSE << "list the projects" >>]

NextConc ==
    \E s \in Sessions :
        \/ HandleMessage(s, SessionText[s], NoDoc, MaxConcTurns)
        \/ TypingSent(s)
        \/ ContextOk(s)
        \/ ModelRaises(s)
        \/ ModelAnswers(s, HistContents)
        \/ ReplySent(s)
        \/ ApologySent(s)

SpecConc == Init /\ [][NextConc]_vars

(***************************************************************************)
(* One turn of a session that has a stored history already: the history   *)
(* of 0, 4, 6 or 10 earlier turns, each with a message and a reply of its  *)
(* own, so that places in the history can be told apart.                   *)
(***************************************************************************)
MaxWindowTurns == 1

EarlierTurns == {0, 4, 6, 10}

RECURSIVE StoredHistory(_)
StoredHistory(n) ==
    IF n = 0 THEN << >>
    ELSE StoredHistory(n - 1) \o
         TurnEntries(<< "message " \o ToString(n) >>, << "reply " \o ToString(n) >>)

InitWindow ==
    /\ \E n \in EarlierTurns :
          /\ user_data = [s \in Sessions |->
                             IF s \in MainSessions /\ n > 0
                             THEN DictSet(EmptyDict, "conversation_history", StoredHistory(n))
                             ELSE EmptyDict]
          /\ committed = [s \in Sessions |->
                             IF s \in MainSessions THEN StoredHistory(n) ELSE << >>]
    /\ Init!2 /\ Init!3 /\ Init!4 /\ Init!5 /\ Init!6 /\ Init!7 /\ Init!8 /\ Init!9
    /\ Init!10 /\ Init!11 /\ Init!12 /\ Init!13 /\ Init!14
    /\ Init!16 /\ Init!17 /\ Init!18 /\ Init!19
    /\ Init!20 /\ Init!21 /\ Init!22

NextWindow ==
    \E s \in MainSessions :
        \/ \E text \in UserTexts : HandleMessage(s, text, NoDoc, MaxWindowTurns)
        \/ TurnStep(s)

SpecWindow == InitWindow /\ [][NextWindow]_vars

(***************************************************************************)
(* strip_think_tags alone, applied once and again to every text made of    *)
(* at most MaxFragments fragments.                                         *)
(***************************************************************************)
MaxFragments == 4

Fragments ==
    { OpenTag, CloseTag, << "<", "t", "h", "i" >>, << "n", "k", ">" >>,
      << "plan" >>, << " " >>, << "\n" >> }

RECURSIVE Concat(_)
Concat(parts) == IF parts = << >> THEN << >> ELSE Head(parts) \o Concat(Tail(parts))

StripInputs ==
    { Concat(parts) : parts \in UNION { [1..n -> Fragments] : n \in 0..MaxFragments } }

InitStrip ==
    /\ Init!1 /\ Init!2 /\ Init!3 /\ Init!4 /\ Init!5 /\ Init!6 /\ Init!7 /\ Init!8
    /\ Init!9 /\ Init!10 /\ Init!11 /\ Init!12 /\ Init!13 /\ Init!14 /\ Init!15
    /\ strip_pc = "in"
    /\ strip_in \in StripInputs
    /\ strip_out = EmptyText
    /\ strip_twice = EmptyText
    /\ Init!20 /\ Init!21 /\ Init!22

handler_vars ==
    << user_data, pc, turns, frame, sent, model_calls, failure, faults, hist0, committed,
       doc_vars >>

StripOnce ==
    /\ strip_pc = "in"
    /\ strip_out' = strip_think_tags(strip_in)
    /\ strip_pc' = "once"
    /\ UNCHANGED << handler_vars, strip_in, strip_twice >>

StripTwice ==
    /\ strip_pc = "once"
    /\ strip_twice' = strip_think_tags(strip_out)
    /\ strip_pc' = "twice"
    /\ UNCHANGED << handler_vars, strip_in, strip_out >>

NextStrip == StripOnce \/ StripTwice

SpecStrip == InitStrip /\ [][NextStrip]_vars

(***************************************************************************)
(* src/gateway.py: handle_document, and the runs in which documents are    *)
(* uploaded. A session starts with one of a few stored histories, each the *)
(* outcome of earlier turns; it then receives texts and documents, with    *)
(* and without caption. The download and the channel may fail; the model   *)
(* answers in text or fails, the backend works.                            *)
(***************************************************************************)
MaxDocUpdates == 3

\* the tokens that are runs of decimal digits
DigitTokens == {"20", "7", "9"}

\* str.lower(), on the tokens that have an upper-case letter and matter to
\* the search of line 228
PyLower(text) == [i \in 1..Len(text) |-> IF text[i] = "Task" THEN "task" ELSE text[i]]

\* ' '.join(parts)
RECURSIVE PyJoin(_)
PyJoin(parts) ==
    IF parts = << >> THEN EmptyText
    ELSE IF Len(parts) = 1 THEN parts[1]
    ELSE parts[1] \o << " " >> \o PyJoin(Tail(parts))

\* r'task (\d+)' matches at place i of text
TaskMatchAt(text, i) ==
    /\ i + 2 <= Len(text)
    /\ text[i] = "task"
    /\ text[i + 1] = " "
    /\ text[i + 2] \in DigitTokens

\* (\d+) from place j on: the longest run of digits
RECURSIVE DigitRun(_, _)
DigitRun(text, j) ==
    IF j <= Len(text) /\ text[j] \in DigitTokens
    THEN << text[j] >> \o DigitRun(text, j + 1)
    ELSE << >>

\* lines 228-231: re.search(r'task (\d+)', text), and group(1) of the match,
\* None when there is none
re_search(text) ==
    LET at == {i \in 1..Len(text) : TaskMatchAt(text, i)}
    IN  IF at = {} THEN NoneVal
        ELSE DigitRun(text, (CHOOSE i \in at : \A j \in at : i <= j) + 2)

\* line 224
RecentMessages(history) ==
    LET recent == LastN(history, 4)
    IN  PyJoin([i \in 1..Len(recent) |-> recent[i].content])

\* lines 213-217
LastUpload(file_name, date) ==
    [filename |-> file_name, path |-> << "MEDIA_INBOX/", file_name >>, timestamp |-> date]

\* line 236, line 248, line 254, line 260
Confirmation(file_name, id) ==
    << "Received ", file_name, ". Analyzing for ", "task", " " >> \o id \o << "..." >>

SyntheticText(id) == << "Analyze this uploaded document for ", "task", " " >> \o id

Question(file_name) == << "Received ", file_name, ". What would you like me to do with it?" >>

DocApology == << "Sorry, I encountered an error handling your file." >>

\* lines 196-206: a document arrives and its download is begun
HandleDocument(s, file_name, caption, max_updates) ==
    /\ pc[s] = "idle"
    /\ turns[s] < max_updates
    /\ turns' = [turns EXCEPT ![s] = @ + 1]
    /\ update' = [update EXCEPT ![s] = DocumentUpdate(file_name, caption)]
    /\ doc_sent' = [doc_sent EXCEPT ![s] = << >>]
    /\ task_id' = [task_id EXCEPT ![s] = NoneVal]
    /\ pc' = [pc EXCEPT ![s] = "download"]
    /\ sent' = [sent EXCEPT ![s] = << >>]
    /\ model_calls' = [model_calls EXCEPT ![s] = 0]
    /\ failure' = [failure EXCEPT ![s] = "none"]
    /\ faults' = [faults EXCEPT ![s] = 0]
    /\ hist0' = [hist0 EXCEPT ![s] = History(s)]
    /\ UNCHANGED << user_data, frame, committed, strip_vars >>

\* lines 206-235 or 253: the download is done and recorded; without a caption
\* the recent history is searched for a task and the reply begun
Downloaded(s) ==
    /\ pc[s] = "download"
    /\ user_data' = [user_data EXCEPT ![s] =
                        DictSet(@, "last_upload", LastUpload(update[s].document, turns[s]))]
    /\ IF ~ Falsy(update[s].caption)
       THEN pc' = [pc EXCEPT ![s] = "idle"] /\ task_id' = task_id
       ELSE LET id == re_search(PyLower(RecentMessages(History(s))))
            IN  /\ task_id' = [task_id EXCEPT ![s] = id]
                /\ pc' = [pc EXCEPT ![s] = IF id # NoneVal THEN "confirm" ELSE "ask"]
    /\ UNCHANGED << turns, frame, sent, model_calls, failure, faults, hist0, committed,
                    strip_vars, update, doc_sent >>

\* line 206 or 208 raises
DownloadRaises(s) ==
    /\ pc[s] = "download"
    /\ pc' = [pc EXCEPT ![s] = "doc_apology"]
    /\ UNCHANGED << user_data, turns, frame, sent, model_calls, failure, faults, hist0,
                    committed, strip_vars, doc_vars >>

\* line 235 returns; lines 240-250: handle_message is called with the
\* synthetic text and the message of the upload
ConfirmationSent(s) ==
    /\ pc[s] = "confirm"
    /\ doc_sent' = [doc_sent EXCEPT ![s] =
                       Append(@, Text("text", Confirmation(update[s].document, task_id[s]), TRUE))]
    /\ EnterHandleMessage(s, SyntheticText(task_id[s]), update[s].document)
    /\ UNCHANGED << turns, update, task_id >>

\* line 235 raises
ConfirmationRaises(s) ==
    /\ pc[s] = "confirm"
    /\ doc_sent' = [doc_sent EXCEPT ![s] =
                       Append(@, Text("text", Confirmation(update[s].document, task_id[s]), FALSE))]
    /\ pc' = [pc EXCEPT ![s] = "doc_apology"]
    /\ UNCHANGED << user_data, turns, frame, sent, model_calls, failure, faults, hist0,
                    committed, strip_vars, update, task_id >>

\* line 253 returns
QuestionSent(s) ==
    /\ pc[s] = "ask"
    /\ doc_sent' = [doc_sent EXCEPT ![s] =
                       Append(@, Text("text", Question(update[s].document), TRUE))]
    /\ pc' = [pc EXCEPT ![s] = "idle"]
    /\ UNCHANGED << user_data, turns, frame, sent, model_calls, failure, faults, hist0,
                    committed, strip_vars, update, task_id >>

\* line 253 raises
QuestionRaises(s) ==
    /\ pc[s] = "ask"
    /\ doc_sent' = [doc_sent EXCEPT ![s] =
                       Append(@, Text("text", Question(update[s].document), FALSE))]
    /\ pc' = [pc EXCEPT ![s] = "doc_apology"]
    /\ UNCHANGED << user_data, turns, frame, sent, model_calls, failure, faults, hist0,
                    committed, strip_vars, update, task_id >>

\* line 260 returns, or raises: handle_document is over
DocApologySent(s) ==
    /\ pc[s] = "doc_apology"
    /\ \E ok \in BOOLEAN :
          doc_sent' = [doc_sent EXCEPT ![s] = Append(@, Text("text", DocApology, ok))]
    /\ pc' = [pc EXCEPT ![s] = "idle"]
    /\ UNCHANGED << user_data, turns, frame, sent, model_calls, failure, faults, hist0,
                    committed, strip_vars, update, task_id >>

DocFiles == {"a.pdf", "b.pdf"}

DocCaptions == {NoneVal, << "the report" >>}

DocUserTexts == { << "hello" >> }

DocContents == { << "Task", " ", "9", " ", "is", " ", "open" >> }

\* the stored histories a session starts with, oldest turn first
DocHistories ==
    LET hello  == TurnEntries(<< "hello" >>, << "ok" >>)
        status == TurnEntries(<< "status", " ", "of", " ", "task", " ", "20" >>,
                              << "Task", " ", "7", " ", "is", " ", "done" >>)
        which  == TurnEntries(<< "which", " ", "task" >>, << "20", " ", "items" >>)
        asked  == TurnEntries(<< "status", " ", "of", " ", "task", " ", "20" >>, << "ok" >>)
        count  == TurnEntries(<< "which", " ", "task" >>, << "9", " ", "items" >>)
    IN  { << >>, hello, status, which, asked \o hello \o hello, count \o status }

InitDoc ==
    /\ \E history \in DocHistories :
          /\ user_data = [s \in Sessions |->
                             IF s \in MainSessions /\ history # << >>
                             THEN DictSet(EmptyDict, "conversation_history", history)
                             ELSE EmptyDict]
          /\ committed = [s \in Sessions |->
                             IF s \in MainSessions THEN history ELSE << >>]
    /\ Init!2 /\ Init!3 /\ Init!4 /\ Init!5 /\ Init!6 /\ Init!7 /\ Init!8 /\ Init!9
    /\ Init!10 /\ Init!11 /\ Init!12 /\ Init!13 /\ Init!14
    /\ Init!16 /\ Init!17 /\ Init!18 /\ Init!19
    /\ Init!20 /\ Init!21 /\ Init!22

NextDoc ==
    \E s \in MainSessions :
        \/ \E text \in DocUserTexts : HandleMessage(s, text, NoDoc, MaxDocUpdates)
        \/ \E file_name \in DocFiles, caption \in DocCaptions :
              HandleDocument(s, file_name, caption, MaxDocUpdates)
        \/ Downloaded(s)
        \/ DownloadRaises(s)
        \/ ConfirmationSent(s)
        \/ ConfirmationRaises(s)
        \/ QuestionSent(s)
        \/ QuestionRaises(s)
        \/ DocApologySent(s)
        \/ TypingSent(s)
        \/ TypingRaises(s)
        \/ ContextOk(s)
        \/ ModelRaises(s)
        \/ ModelAnswers(s, DocContents)
        \/ ReplySent(s)
        \/ ReplyRaises(s)
        \/ ApologySent(s)

SpecDoc == InitDoc /\ [][NextDoc]_vars

(***************************************************************************)
(* What the claims speak of.                                               *)
(***************************************************************************)
\* an assistant message that carries tool_calls
IsBatch(m) == m.role = "assistant" /\ "tool_calls" \in DOMAIN m

\* the responses with tool_calls the turn has received
ToolBatches(s) == Cardinality({k \in 1..Len(messages[s]) : IsBatch(messages[s][k])})

\* the tool messages that follow place k of msgs directly
ToolRun(msgs, k) ==
    LET stops == {j \in (k + 1)..(Len(msgs) + 1) : j = Len(msgs) + 1 \/ msgs[j].role # "tool"}
    IN  (CHOOSE j \in stops : \A i \in stops : j <= i) - k - 1

LastBatch(msgs, k) == \A j \in (k + 1)..Len(msgs) : ~ IsBatch(msgs[j])

LastSent(s) == sent[s][Len(sent[s])]

\* C1: every turn's tool-calling loop ends, whatever the model endpoint and
\* the tools answer, provided every awaited call returns; and a turn never
\* makes more than 6 model calls.
C1_LoopTerminates ==
    /\ [](\A s \in Sessions : model_calls[s] <= 6)
    /\ \A s \in MainSessions :
          (pc[s] \in {"model", "tools", "typing"}) ~> (pc[s] \notin {"model", "tools", "typing"})

\* a turn is over in which the cap's 5 model calls were made
C1_Witness ==
    \E s \in MainSessions :
        pc[s] = "idle" /\ turns[s] = 1 /\ model_calls[s] = max_iterations /\ failure[s] = "none"

\* C2: once 5 iterations of one turn each got a response with tool_calls,
\* the loop is over with the reply "I executed the tools but couldn't
\* generate a response.", and the turn makes no 6th model call.
C2_CapForcesFallback ==
    \A s \in Sessions :
        /\ ToolBatches(s) = 5 => model_calls[s] = 5
        /\ iteration[s] = 5 =>
              /\ ToolBatches(s) = 5
              /\ final_message[s] = CapFallback
              /\ pc[s] = "reply" \/ (pc[s] = "apology" /\ failure[s] = "reply")

C2_Witness ==
    \E s \in MainSessions :
        ToolBatches(s) = 5 /\ pc[s] = "reply" /\ final_message[s] = CapFallback

C4_ToolMessageFollowsItsCall ==
    \A s \in Sessions :
        \A j \in 1..Len(messages[s]) :
            messages[s][j].role = "tool" =>
                \E k \in 1..(j - 1) :
                    /\ IsBatch(messages[s][k])
                    /\ \A i \in (k + 1)..(j - 1) : messages[s][i].role = "tool"
                    /\ \E c \in 1..Len(messages[s][k].tool_calls) :
                          messages[s][k].tool_calls[c].id = messages[s][j].tool_call_id

\* a tool message in an exchange that replays an earlier turn
C4_Witness ==
    \E s \in MainSessions :
        /\ Len(hist0[s]) > 0
        /\ \E j \in 1..Len(messages[s]) : messages[s][j].role = "tool"
        /\ \E j \in 1..Len(messages[s]) : messages[s][j] = hist0[s][1]

\* C5: the stored history has at most 20 entries and is the last min(20,
\* total) of all the entries ever committed for the session, in their order.
C5_HistoryIsTail ==
    \A s \in Sessions :
        /\ Len(History(s)) <= 20
        /\ History(s) = LastN(committed[s], 20)

\* more than 20 entries were committed, the first and the last of them differ
C5_Witness ==
    \E s \in MainSessions :
        /\ pc[s] = "idle"
        /\ Len(committed[s]) > 20
        /\ committed[s][1] # committed[s][Len(committed[s]) - 1]

C7_OnlyModelAndChannelAbort ==
    \A s \in Sessions :
        pc[s] = "apology" => failure[s] \in {"model", "shape", "typing", "reply"}

\* C8: "I executed the tools but couldn't generate a response." is the reply
\* only when the cap of 5 iterations was reached.
C8_CapFallbackOnlyAtCap ==
    \A s \in Sessions :
        (pc[s] = "reply" /\ final_message[s] = CapFallback) => iteration[s] = max_iterations

\* C9: strip_think_tags applied twice gives what it gives applied once, and
\* a text without markers comes back trimmed and otherwise unchanged.
C9_StripIdempotent ==
    strip_pc = "twice" =>
        /\ strip_twice = strip_out
        /\ ~ HasMarker(strip_in) => strip_out = PyStrip(strip_in)

\* C10: no reply and no assistant entry of the stored history holds a
\* "<think>" or a "</think>" marker.
C10_NoMarkerLeft ==
    \A s \in Sessions :
        /\ pc[s] = "reply" => ~ HasMarker(final_message[s])
        /\ \A i \in 1..Len(History(s)) :
              History(s)[i].role = "assistant" => ~ HasMarker(History(s)[i].content)

\* C11: a turn that completes without error appends exactly two entries to
\* the stored history, the user message and then an assistant entry with the
\* reply text that was sent, whatever the number of tool iterations; nothing
\* else ever changes the stored history, and every stored entry is a user or
\* an assistant entry made of a role and a content only.
C11_TurnCommitsTwoEntries ==
    /\ [][\A s \in Sessions :
            LET completes == pc[s] = "reply" /\ pc'[s] = "idle"
                entries   == << [role |-> "user", content |-> user_message[s]],
                                [role |-> "assistant",
                                 content |-> sent'[s][Len(sent'[s])].text] >>
            IN  /\ completes =>
                      /\ failure'[s] = "none"
                      /\ sent'[s][Len(sent'[s])].kind = "text"
                      /\ committed'[s] = committed[s] \o entries
                      /\ History(s)' = LastN(History(s) \o entries, HistoryLimit)
                /\ ~ completes =>
                      /\ committed'[s] = committed[s]
                      /\ History(s)' = History(s)]_vars
    /\ [](\A s \in Sessions :
            \A i \in 1..Len(History(s)) :
                /\ DOMAIN History(s)[i] = {"role", "content"}
                /\ History(s)[i].role \in {"user", "assistant"})

\* a turn with two tool iterations is over and its two entries are stored
C11_Witness ==
    \E s \in MainSessions :
        /\ pc[s] = "idle" /\ failure[s] = "none"
        /\ model_calls[s] = 3
        /\ Len(hist0[s]) = 0 /\ Len(History(s)) = 2

\* the tool call the loop of line 141 stands at
CurrentCall(s) == message[s].tool_calls[tool_idx[s]]

\* the JSON text of the object {"error": text}
ErrorObject(text) == << "{", "\"error\"", ":", " ", "\"" >> \o text \o << "\"", "}" >>

\* the tool message of the call the loop stands at, with this content
ToolMessageOf(s, content) ==
    [role |-> "tool",
     tool_call_id |-> CurrentCall(s).id,
     name |-> CurrentCall(s).function.name,
     content |-> content]

\* the step appends this one message and goes on to the batch's next call
\* or, after the last call, to the typing indicator before the next model
\* call; nothing is raised
FedBack(s, m) ==
    /\ messages'[s] = Append(messages[s], m)
    /\ pc'[s] = IF tool_idx[s] < Len(message[s].tool_calls) THEN "tools" ELSE "typing"
    /\ tool_idx'[s] = tool_idx[s] + 1
    /\ failure'[s] = "none"
    /\ sent'[s] = sent[s]

\* C12: when the script of a tool call exits with a nonzero status, the
\* tool message appended for the call has the content {"error": <stderr>},
\* and the loop goes on (next call of the batch, or typing indicator and
\* next model call) without aborting the turn.
C12_NonzeroExitFedBack ==
    [][\A s \in Sessions :
          (/\ ToolRuns(s, ProcFails)
           /\ Spawns(CurrentCall(s).function.name,
                     JsonLoads(CurrentCall(s).function.arguments).value))
          => FedBack(s, ToolMessageOf(s, ErrorObject(<< ProcFails.stderr >>)))]_vars

\* a second model call is under way with the stderr of a failed script in
\* the exchange
C12_Witness ==
    \E s \in MainSessions :
        /\ pc[s] = "model" /\ model_calls[s] = 2
        /\ \E j \in 1..Len(messages[s]) :
              /\ messages[s][j].role = "tool"
              /\ messages[s][j].content = ErrorObject(<< "Task not found" >>)

\* C13: execute_tool never raises: for a tool name outside the catalog (no
\* process is spawned), for a timeout of the script, and for output that is
\* no JSON on a zero exit status, it returns an error result, which is
\* appended as the tool message of the call, and the turn goes on; and a
\* call whose arguments were decoded is never what aborts a turn.
C13_ExecuteToolNeverRaises ==
    [][\A s \in Sessions :
          LET name == CurrentCall(s).function.name
              args == JsonLoads(CurrentCall(s).function.arguments)
          IN  /\ (\E proc \in {ProcOk} \cup ProcFaults : ToolRuns(s, proc) /\ name \notin TOOLS) =>
                    /\ ~ Spawns(name, args.value)
                    /\ FedBack(s, ToolMessageOf(s, ErrorObject(<< "Unknown tool: ", name >>)))
              /\ (ToolRuns(s, ProcTimeout) /\ Spawns(name, args.value)) =>
                    FedBack(s, ToolMessageOf(s, ErrorObject(<< "Tool ", name, " timed out" >>)))
              /\ (ToolRuns(s, ProcBadOutput) /\ Spawns(name, args.value)) =>
                    FedBack(s, ToolMessageOf(s,
                               ErrorObject(<< "Tool execution failed: ", "JSONDecodeError" >>)))
              /\ (pc[s] = "tools" /\ args.ok) =>
                    /\ failure'[s] = "none"
                    /\ pc'[s] # "apology"]_vars

\* a second model call is under way after an unknown tool was asked for
C13_Witness ==
    \E s \in MainSessions :
        /\ pc[s] = "model" /\ model_calls[s] = 2
        /\ \E j \in 1..Len(messages[s]) :
              /\ messages[s][j].role = "tool"
              /\ messages[s][j].content = ErrorObject(<< "Unknown tool: ", "no_such_tool" >>)

\* C14: once a model call of a turn has failed (call_vllm raised, or the
\* response has no choices[0].message), at whatever iteration, the turn makes
\* no further model call and runs no further tool call, and the only text it
\* sends is the apology: no partial or fallback answer.
C14_ModelFailureEndsTurn ==
    /\ [](\A s \in Sessions :
            failure[s] \in {"model", "shape"} =>
                /\ pc[s] \in {"apology", "idle"}
                /\ \A i \in 1..Len(sent[s]) :
                      sent[s][i].kind = "text" => (sent[s][i].text = Apology /\ i = Len(sent[s]))
                /\ pc[s] = "idle" => (sent[s] # << >> /\ LastSent(s).text = Apology)
                /\ History(s) = hist0[s])
    /\ [][\A s \in Sessions :
            (failure[s] \in {"model", "shape"} /\ failure'[s] = failure[s]) =>
                /\ model_calls'[s] = model_calls[s]
                /\ messages'[s] \in {messages[s], << >>}
                /\ tool_idx'[s] \in {tool_idx[s], 0}]_vars

\* the second model call of a turn failed, after a batch of tools was run,
\* and the turn is over
C14_Witness ==
    \E s \in MainSessions :
        /\ pc[s] = "idle" /\ failure[s] \in {"model", "shape"}
        /\ model_calls[s] = 2
        /\ Len(sent[s]) = 3 /\ LastSent(s).ok

\* all that the model holds of one session
SessionState(s) ==
    << user_data[s], pc[s], turns[s], user_message[s], messages[s], iteration[s],
       final_message[s], message[s], tool_idx[s], sent[s], model_calls[s],
       failure[s], faults[s], hist0[s], committed[s] >>

\* the user entries of seq hold the text of session s
OwnEntries(s, seq) ==
    \A i \in 1..Len(seq) : seq[i].role = "user" => seq[i].content = SessionText[s]

\* the history n completed turns of session s give when s is alone
RECURSIVE SoloHistory(_, _)
SoloHistory(s, n) ==
    IF n = 0 THEN << >>
    ELSE LET before == SoloHistory(s, n - 1)
             both   == before \o << [role |-> "user", content |-> SessionText[s]],
                                    [role |-> "assistant", content |-> << "Task 20 is open" >>] >>
         IN  IF Len(both) > 20 THEN SubSeq(both, Len(both) - 19, Len(both)) ELSE both

C16_CapTurnIsNormal ==
    /\ [](\A s \in Sessions :
            iteration[s] = max_iterations =>
                /\ final_message[s] = CapFallback
                /\ pc[s] = "reply" \/ failure[s] = "reply"
                /\ failure[s] \in {"none", "reply"}
                /\ \A i \in 1..Len(sent[s]) : sent[s][i].ok => sent[s][i].kind = "typing")
    /\ [][\A s \in Sessions :
            (iteration[s] = max_iterations /\ pc[s] = "reply" /\ pc'[s] = "idle") =>
                /\ failure'[s] = "none"
                /\ sent'[s] = Append(sent[s], Text("text", CapFallback, TRUE))
                /\ committed'[s] = committed[s] \o
                      << [role |-> "user", content |-> user_message[s]],
                         [role |-> "assistant", content |-> CapFallback] >>
                /\ History(s)' = LastN(committed'[s], HistoryLimit)]_vars

\* a turn that reached the cap is over: the fallback was sent and is stored
C16_Witness ==
    \E s \in MainSessions :
        /\ pc[s] = "idle" /\ failure[s] = "none"
        /\ model_calls[s] = max_iterations
        /\ LastSent(s) = Text("text", CapFallback, TRUE)
        /\ History(s)[Len(History(s))].content = CapFallback
        /\ \A i \in 1..Len(sent[s]) : sent[s][i].text # Apology

\* C17: a failed fetch of the enriched context (a status other than 200, a
\* network failure, a body that does not decode) never aborts the turn: the
\* context is the empty string, so the second system message is "PROJECT
\* CONTEXT:" and a line break, and the turn goes on to its first model call.
C17_ContextFailureTolerated ==
    /\ \A response \in BackendFaults : get_enriched_context(response) = EmptyText
    /\ [][\A s \in Sessions :
            /\ ContextFails(s) =>
                  /\ messages'[s] = BuildMessages(hist0[s], EmptyText, user_message[s])
                  /\ messages'[s][2].content = << "PROJECT CONTEXT:", "\n" >>
            /\ (pc[s] = "context" /\ pc'[s] # "context") =>
                  /\ pc'[s] = "model"
                  /\ model_calls'[s] = 1
                  /\ failure'[s] = "none"
                  /\ sent'[s] = sent[s]]_vars

\* the first model call of a turn is under way with an empty context, in a
\* session that has a stored history
C17_Witness ==
    \E s \in MainSessions :
        /\ pc[s] = "model" /\ model_calls[s] = 1 /\ faults[s] = 1
        /\ messages[s][2].content = << "PROJECT CONTEXT:", "\n" >>
        /\ Len(hist0[s]) = 2

\* the exchange ends with the assistant message under way and the results of
\* its first k calls, in their order
BatchAppended(s, k) ==
    LET n == Len(messages[s])
    IN  /\ k <= Len(message[s].tool_calls)
        /\ n > k
        /\ messages[s][n - k] = message[s]
        /\ \A j \in 1..k :
              /\ messages[s][n - k + j].role = "tool"
              /\ messages[s][n - k + j].tool_call_id = message[s].tool_calls[j].id

\* C18: the tool calls of a turn run one at a time: the assistant message
\* with the batch is in the exchange before the first call is run, call i+1
\* is run only when the results of calls 1..i are appended, a step runs one
\* call and appends its one result, and a model call after a batch is issued
\* only when the results of all the calls of the batch are appended.
C18_ToolCallsSequential ==
    /\ [](\A s \in Sessions :
            /\ pc[s] = "tools" =>
                  /\ tool_idx[s] \in 1..Len(message[s].tool_calls)
                  /\ BatchAppended(s, tool_idx[s] - 1)
            /\ pc[s] = "typing" => BatchAppended(s, Len(message[s].tool_calls)))
    /\ [][\A s \in Sessions :
            /\ (pc[s] = "model" /\ pc'[s] = "tools") =>
                  /\ messages'[s] = Append(messages[s], message'[s])
                  /\ tool_idx'[s] = 1
            /\ (pc[s] = "tools" /\ messages'[s] # messages[s]) =>
                  /\ Len(messages'[s]) = Len(messages[s]) + 1
                  /\ messages'[s] = Append(messages[s], messages'[s][Len(messages'[s])])
                  /\ messages'[s][Len(messages'[s])].role = "tool"
                  /\ messages'[s][Len(messages'[s])].tool_call_id = CurrentCall(s).id
                  /\ tool_idx'[s] = tool_idx[s] + 1
            /\ (model_calls'[s] = model_calls[s] + 1 /\ model_calls[s] > 0) =>
                  /\ pc[s] = "typing"
                  /\ BatchAppended(s, Len(message[s].tool_calls))
                  /\ messages'[s] = messages[s]
            /\ (pc[s] # "tools" /\ pc[s] # "model" /\ pc'[s] # "idle") =>
                  messages'[s] = messages[s] \/ messages[s] = << >>]_vars

\* the second batch of a turn is half run: one result is appended, the
\* second call is next
C18_Witness ==
    \E s \in MainSessions :
        /\ pc[s] = "tools" /\ model_calls[s] = 2
        /\ tool_idx[s] = 2 /\ Len(message[s].tool_calls) = 2
        /\ messages[s][Len(messages[s])].role = "tool"

\* msgs starts with the messages of head
IsPrefix(head, msgs) ==
    Len(head) <= Len(msgs) /\ SubSeq(msgs, 1, Len(head)) = head

\* the last min(10, length) entries of a history
Window(history) ==
    SubSeq(history,
           Len(history) - (IF Len(history) < 10 THEN Len(history) ELSE 10) + 1,
           Len(history))

\* C19: the message list of every model call of a turn is the system prompt,
\* the system message with the enriched context (empty when its fetch
\* failed), the last min(10, length) entries of the stored history in their
\* order, the user message of the turn, and after these nothing but the
\* assistant messages with tool calls and the tool messages of the turn; and
\* during a turn the list changes by appending only, so the list of a call
\* is a prefix of the list of the next.
C19_ExchangeShape ==
    /\ [](\A s \in Sessions :
            pc[s] = "model" =>
                LET head == Len(Window(hist0[s])) + 3
                IN  /\ Len(messages[s]) >= head
                    /\ messages[s][1] = [role |-> "system", content |-> SYSTEM_PROMPT]
                    /\ messages[s][2].role = "system"
                    /\ \E c \in ContextTexts \cup {EmptyText} :
                          messages[s][2].content = << "PROJECT CONTEXT:", "\n" >> \o c
                    /\ SubSeq(messages[s], 3, head - 1) = Window(hist0[s])
                    /\ hist0[s] = History(s)
                    /\ messages[s][head] = [role |-> "user", content |-> user_message[s]]
                    /\ \A j \in (head + 1)..Len(messages[s]) :
                          IsBatch(messages[s][j]) \/ messages[s][j].role = "tool"
                    /\ Len(messages[s]) > head <=> model_calls[s] > 1)
    /\ [][\A s \in Sessions :
            (messages[s] # << >> /\ messages'[s] # << >>) =>
                IsPrefix(messages[s], messages'[s])]_vars

\* the second model call of a turn, in a session with 12 stored entries:
\* the exchange replays the last ten of them and holds a tool message
C19_Witness ==
    \E s \in MainSessions :
        /\ pc[s] = "model" /\ model_calls[s] = 2
        /\ Len(hist0[s]) = 12
        /\ messages[s][3] = hist0[s][3]
        /\ messages[s][Len(messages[s])].role = "tool"

\* C20: the stored history changes only in the step in which the reply of
\* the turn got through to the channel; when the send of the reply raises,
\* the history stays what it was when the turn began and the turn ends as an
\* error turn, with the apology as its last send.
C20_CommitAfterReplySent ==
    /\ [](\A s \in Sessions :
            failure[s] = "reply" =>
                /\ History(s) = hist0[s]
                /\ pc[s] \in {"apology", "idle"}
                /\ \E i \in 1..Len(sent[s]) : sent[s][i].kind = "text" /\ ~ sent[s][i].ok
                /\ pc[s] = "idle" => LastSent(s).text = Apology)
    /\ [][\A s \in Sessions :
            /\ (committed'[s] # committed[s] \/ History(s)' # History(s)) =>
                  /\ pc[s] = "reply"
                  /\ sent'[s] = Append(sent[s], Text("text", final_message[s], TRUE))
            /\ (pc[s] = "reply" /\ sent'[s] # sent[s] /\ ~ sent'[s][Len(sent'[s])].ok) =>
                  /\ pc'[s] = "apology"
                  /\ failure'[s] = "reply"
                  /\ user_data'[s] = user_data[s]]_vars

\* the reply of a session's second turn did not get through: the turn is
\* over after its apology, the history is that of the first turn
C20_Witness ==
    \E s \in MainSessions :
        /\ pc[s] = "idle" /\ failure[s] = "reply"
        /\ Len(hist0[s]) = 2 /\ History(s) = hist0[s]
        /\ Len(sent[s]) >= 3
        /\ ~ sent[s][Len(sent[s]) - 1].ok
        /\ sent[s][Len(sent[s]) - 1].text # Apology

\* C21: every request to the model endpoint, at the first iteration of a
\* turn as at the last, carries the exchange and the whole catalog of 11
\* tools, with tool_choice "auto".
C21_RequestCarriesCatalog ==
    \A s \in Sessions :
        pc[s] = "model" =>
            /\ DOMAIN Request(s) = {"model", "messages", "tools", "tool_choice"}
            /\ Request(s).tools =
                  { "get_tasks", "get_task", "analyze_task_document", "complete_task",
                    "create_task", "update_task", "delete_task", "process_rfp",
                    "get_project_stats", "delete_project", "get_projects" }
            /\ Request(s).tool_choice = "auto"
            /\ Request(s).messages = messages[s]

\* the fifth request of a turn, after four batches of tools
C21_Witness ==
    \E s \in MainSessions :
        /\ pc[s] = "model" /\ model_calls[s] = 5 /\ ToolBatches(s) = 4
        /\ Request(s).tool_choice = "auto"

\* no text at all, or nothing but whitespace
Blank(text) ==
    text = NoneVal \/ \A i \in 1..Len(text) : text[i] \in Whitespace

\* C22: the reply of a turn, from the moment it is made to the moment it is
\* sent, and every assistant entry of the stored history, is a text that is
\* neither empty nor made of whitespace only.
C22_ReplyNotBlank ==
    \A s \in Sessions :
        /\ pc[s] = "reply" => ~ Blank(final_message[s])
        /\ \A i \in 1..Len(sent[s]) : sent[s][i].kind = "text" => ~ Blank(sent[s][i].text)
        /\ \A i \in 1..Len(History(s)) :
              History(s)[i].role = "assistant" => ~ Blank(History(s)[i].content)

\* a turn whose answer was reasoning only is over: the canned text was sent
\* and is stored
C22_Witness ==
    \E s \in MainSessions :
        /\ pc[s] = "idle" /\ failure[s] = "none" /\ turns[s] = 1
        /\ LastSent(s) = Text("text", EmptyFallback, TRUE)
        /\ History(s)[2].content = EmptyFallback

\* the message carries at least one tool call
HasToolCalls(m) == "tool_calls" \in DOMAIN m /\ Len(m.tool_calls) > 0

\* C23: the loop is left for the reply below the cap exactly when the
\* response just received carries no tool calls (no tool_calls key, or an
\* empty list): that response is not appended to the exchange, no tool is
\* run for it, no further model call follows it, and the model calls of the
\* turn are then one more than the batches of tools handled; a response
\* that carries tool calls has them run.
C23_FinalIffNoToolCalls ==
    \A s \in Sessions :
        /\ (pc[s] = "reply" /\ iteration[s] < max_iterations) =>
              /\ message[s].role = "assistant"
              /\ ~ HasToolCalls(message[s])
        /\ (message[s].role = "assistant" /\ ~ HasToolCalls(message[s])) =>
              /\ pc[s] = "reply" \/ (pc[s] = "apology" /\ failure[s] = "reply")
              /\ model_calls[s] = ToolBatches(s) + 1
              /\ iteration[s] = ToolBatches(s)
              /\ ~ IsBatch(messages[s][Len(messages[s])])
              /\ final_message[s] = FinalText(message[s].content)
        /\ pc[s] \in {"tools", "typing"} => HasToolCalls(message[s])

\* the third response of a turn came with an empty list of tool calls,
\* after two batches: its content is the reply about to be sent
C23_Witness ==
    \E s \in MainSessions :
        /\ pc[s] = "reply"
        /\ "tool_calls" \in DOMAIN message[s] /\ message[s].tool_calls = << >>
        /\ model_calls[s] = 3 /\ ToolBatches(s) = 2

\* C24: the stored history of a session has an even number of entries that
\* go user, assistant, user, assistant from a user entry on, also once it
\* was cut to 20; so the entries replayed to the model, the last 10 at most,
\* start with a user entry and end with an assistant entry.
C24_HistoryAlternates ==
    \A s \in Sessions :
        /\ Len(History(s)) % 2 = 0
        /\ \A i \in 1..Len(History(s)) :
              History(s)[i].role = (IF i % 2 = 1 THEN "user" ELSE "assistant")
        /\ Window(History(s)) # << >> =>
              /\ Window(History(s))[1].role = "user"
              /\ Window(History(s))[Len(Window(History(s)))].role = "assistant"
        /\ (pc[s] = "model" /\ History(s) # << >>) =>
              /\ messages[s][3].role = "user"
              /\ messages[s][Len(messages[s]) - 1].role = "assistant"
              /\ SubSeq(messages[s], 3, Len(messages[s]) - 1) = Window(History(s))

\* a model call is under way in a session whose history was cut to 20
C24_Witness ==
    \E s \in MainSessions :
        /\ pc[s] = "model"
        /\ Len(committed[s]) > 20 /\ Len(History(s)) = 20
        /\ Len(messages[s]) = 13

\* C25: every tool call of every response of a turn is run exactly once,
\* those of the 5th response at the cap included: as soon as the loop is no
\* longer at work on a batch, each of its calls has its one result in the
\* exchange, in the order of the calls.
C25_EveryCallDispatchedOnce ==
    \A s \in Sessions :
        \A k \in 1..Len(messages[s]) :
            IsBatch(messages[s][k]) =>
                LET calls == messages[s][k].tool_calls
                    got   == ToolRun(messages[s], k)
                IN  /\ got <= Len(calls)
                    /\ \A i \in 1..got : messages[s][k + i].tool_call_id = calls[i].id
                    /\ (pc[s] # "tools" \/ ~ LastBatch(messages[s], k)) => got = Len(calls)

\* the text messages among the sends of the session's current invocation
TextsSent(s) == SelectSeq(sent[s], LAMBDA m : m.kind = "text")

\* every send of the session's current invocation went through
SendsSucceed(s) == \A i \in 1..Len(sent[s]) : sent[s][i].ok

\* C26: an invocation of handle_message whose sends all succeed sends exactly
\* one text: the apology when a step of the turn failed, the final reply
\* otherwise; it is the last thing sent, and before the end none is sent.
C26_ExactlyOneText ==
    \A s \in Sessions :
        SendsSucceed(s) =>
            /\ (pc[s] = "idle" /\ turns[s] > 0) =>
                  /\ Len(TextsSent(s)) = 1
                  /\ LastSent(s).kind = "text"
                  /\ (LastSent(s).text = Apology) <=> (failure[s] # "none")
            /\ pc[s] # "idle" => TextsSent(s) = << >>

C26_Witness ==
    \E s \in MainSessions :
        /\ pc[s] = "idle" /\ turns[s] > 0 /\ SendsSucceed(s)
        /\ failure[s] = "model" /\ Len(sent[s]) > 2 /\ LastSent(s).text = Apology

\* the session has a record of an upload
HasUpload(ud) == "last_upload" \in DOMAIN ud

\* what a turn told of the file file_name appends to its message
RecentlyUploaded(file_name) ==
    << "\n", "\n", "[Recently uploaded file:", " ", file_name, "]" >>

\* C27: a download that succeeds records its file as last_upload, and no
\* other step changes or removes the record; from then on a turn whose
\* message has no document runs with the text followed by the annotation
\* naming the recorded file: that is the user message of its requests to
\* the model and of the entry it commits.
C27_LastUploadAnnotates ==
    [][\A s \in Sessions :
          LET downloaded == pc[s] = "download" /\ pc'[s] # "doc_apology"
              annotated  == update'[s].text \o RecentlyUploaded(user_data'[s].last_upload.filename)
          IN  /\ downloaded =>
                    /\ HasUpload(user_data'[s])
                    /\ user_data'[s].last_upload.filename = update[s].document
              /\ (HasUpload(user_data[s]) /\ ~ downloaded) =>
                    /\ HasUpload(user_data'[s])
                    /\ user_data'[s].last_upload = user_data[s].last_upload
              /\ (HasUpload(user_data'[s]) /\ update'[s].document = NoDoc) =>
                    /\ pc'[s] \notin {"idle", "download"} => user_message'[s] = annotated
                    /\ pc'[s] = "model" =>
                          Request(s)'.messages[Len(messages'[s])] =
                              [role |-> "user", content |-> annotated]
                    /\ (pc[s] = "reply" /\ pc'[s] = "idle") =>
                          History(s)'[Len(History(s)') - 1] =
                              [role |-> "user", content |-> annotated]
      ]_vars

C27_Witness ==
    \E s \in MainSessions :
        /\ pc[s] = "idle" /\ turns[s] = 3 /\ update[s].document = NoDoc /\ failure[s] = "none"
        /\ HasUpload(user_data[s]) /\ user_data[s].last_upload.timestamp = 2
        /\ Len(committed[s]) > Len(hist0[s])
        /\ History(s)[Len(History(s)) - 1].content =
              << "hello" >> \o RecentlyUploaded(user_data[s].last_upload.filename)

\* the entry's content mentions a task: "task <number>", in either case
MentionsTask(entry) == re_search(PyLower(entry.content)) # NoneVal

\* the session is past the download of a document sent without caption
UploadedWithoutCaption(s) ==
    /\ update[s].document # NoDoc
    /\ Falsy(update[s].caption)
    /\ HasUpload(user_data[s])
    /\ user_data[s].last_upload.timestamp = turns[s]

\* the questions among the replies of handle_document
Questions(s) ==
    SelectSeq(doc_sent[s], LAMBDA m : m.text = Question(update[s].document))

\* C28: after the download of a document without caption, when none of the
\* last 4 history entries mentions a task, handle_document asks what to do
\* with the file, once, and no more when that reply goes through; no turn is
\* started and no model call made, and the history stays as it was.
C28_NoMentionAsks ==
    \A s \in Sessions :
        (/\ UploadedWithoutCaption(s)
         /\ \A i \in 1..Len(LastN(hist0[s], 4)) : ~ MentionsTask(LastN(hist0[s], 4)[i])) =>
            /\ pc[s] \in {"ask", "doc_apology", "idle"}
            /\ model_calls[s] = 0
            /\ History(s) = hist0[s]
            /\ pc[s] # "ask" => Len(Questions(s)) = 1
            /\ (pc[s] = "idle" /\ doc_sent[s][1].ok) => Len(doc_sent[s]) = 1

\* the places of the entries that mention a task
Mentioning(history) == {i \in 1..Len(history) : MentionsTask(history[i])}

\* the task of the first mention in the oldest entry that has one
EarliestMention(history) ==
    LET first == CHOOSE i \in Mentioning(history) : \A j \in Mentioning(history) : i <= j
    IN  re_search(PyLower(history[first].content))

\* C29: after the download of a document without caption, when several of
\* the last 4 history entries mention a task, the task id taken is that of
\* the earliest mention, oldest entry first; the confirmation names it, and
\* the turn started after the confirmation runs with the synthetic text for
\* that task and the annotation of the file.
C29_EarliestMentionUsed ==
    \A s \in Sessions :
        LET recent == LastN(hist0[s], 4)
        IN  (UploadedWithoutCaption(s) /\ Cardinality(Mentioning(recent)) >= 2) =>
                LET id == EarliestMention(recent)
                IN  /\ task_id[s] = id
                    /\ pc[s] # "ask"
                    /\ doc_sent[s] # << >> =>
                          doc_sent[s][1].text = Confirmation(update[s].document, id)
                    /\ pc[s] \notin {"confirm", "doc_apology", "idle"} =>
                          /\ doc_sent[s] = << Text("text", Confirmation(update[s].document, id), TRUE) >>
                          /\ user_message[s] =
                                AnnotateUserMessage(user_data[s], SyntheticText(id), update[s].document)

=============================================================================
